---- MODULE Spec2Model ----
(***************************************************************************)
(* A model of the time_unit library: the kind registry kept by the         *)
(* metaclass TimeunitKindMeta, the per-kind truncation / successor rules,   *)
(* the integer and string encodings, and the Timeunit value type.           *)
(*                                                                         *)
(* A date is its year, month and day, strings are sequences of             *)
(* one-character strings, and an operation that can raise                   *)
(* returns a result record: Ok(v) or Raise(exception name).                 *)
(***************************************************************************)
EXTENDS Integers, Sequences, FiniteSets, TLC

\* ------------------------------------------------------------------------
\* Bounds of the model
\* ------------------------------------------------------------------------
\* First year of the window of dates handed to the constructors.
WindowYear == 2019
\* Number of days in the window, starting on 25 December of WindowYear.
NumDays == 70
\* Largest number of kinds registered on top of the library's own ones.
MaxReg == 2

\* ------------------------------------------------------------------------
\* Results of operations that can raise
\* ------------------------------------------------------------------------
Ok(v) == [ok |-> TRUE, val |-> v]

Raise(e) == [ok |-> FALSE, exc |-> e]

\* ------------------------------------------------------------------------
\* datetime.date, as the library uses it
\* ------------------------------------------------------------------------
IsLeap(y) == (y % 4 = 0) /\ ((y % 100 # 0) \/ (y % 400 = 0))

DaysInMonth(y, m) ==
    IF m = 2 THEN (IF IsLeap(y) THEN 29 ELSE 28)
    ELSE IF m \in {4, 6, 9, 11} THEN 30 ELSE 31

DaysBeforeYear(y) ==
    (y - 1) * 365 + ((y - 1) \div 4) - ((y - 1) \div 100) + ((y - 1) \div 400)

DaysBeforeMonthTable == <<0, 31, 59, 90, 120, 151, 181, 212, 243, 273, 304, 334>>

DaysBeforeMonth(y, m) ==
    DaysBeforeMonthTable[m] + (IF m > 2 /\ IsLeap(y) THEN 1 ELSE 0)

\* date(y, m, d) accepts only a day that exists.
ValidYmd(y, m, d) ==
    /\ y \in 1..9999
    /\ m \in 1..12
    /\ d \in 1..DaysInMonth(y, m)

\* date(y, m, d) of a day that exists
date(y, m, d) == [year |-> y, month |-> m, day |-> d]

\* dt.toordinal(): the days from 1 January of year 1, which is day 1.
toordinal(dt) == DaysBeforeYear(dt.year) + DaysBeforeMonth(dt.year, dt.month) + dt.day

\* The year of the day of ordinal n.
ord2year(n) ==
    LET n100 == ((n - 1) % 146097) \div 36524
        n1   == ((((n - 1) % 146097) % 36524) % 1461) \div 365
        y    == ((n - 1) \div 146097) * 400 + n100 * 100
                + ((((n - 1) % 146097) % 36524) \div 1461) * 4 + n1 + 1
    IN  IF n1 = 4 \/ n100 = 4 THEN y - 1 ELSE y

\* The month of the yd-th day of year y.
yday2month(y, yd) ==
    CHOOSE m \in 1..12 :
        /\ DaysBeforeMonth(y, m) < yd
        /\ yd <= DaysBeforeMonth(y, m) + DaysInMonth(y, m)

\* The date that is the yd-th day of year y.
yday2date(y, yd) ==
    [year |-> y, month |-> yday2month(y, yd),
     day |-> yd - DaysBeforeMonth(y, yday2month(y, yd))]

\* date.fromordinal(n)
fromordinal(n) == yday2date(ord2year(n), n - DaysBeforeYear(ord2year(n)))

\* dt + timedelta(days=n)
add_days(dt, n) == fromordinal(toordinal(dt) + n)

\* (a - b).days
days_between(a, b) == toordinal(a) - toordinal(b)

\* a < b on dates
date_lt(a, b) == toordinal(a) < toordinal(b)

\* a <= b on dates
date_le(a, b) == toordinal(a) <= toordinal(b)

\* dt.timetuple().tm_yday, from 1
yday(dt) == DaysBeforeMonth(dt.year, dt.month) + dt.day

\* dt.weekday(): Monday is 0.
weekday(dt) == (toordinal(dt) + 6) % 7

\* ------------------------------------------------------------------------
\* Strings, strftime and strptime
\* ------------------------------------------------------------------------
DigitChars == <<"0", "1", "2", "3", "4", "5", "6", "7", "8", "9">>

RECURSIVE DecStr(_)
\* str(n) of a non-negative integer
DecStr(n) ==
    IF n < 10 THEN <<DigitChars[n + 1]>>
    ELSE DecStr(n \div 10) \o <<DigitChars[(n % 10) + 1]>>

RECURSIVE ZeroPad(_, _)
\* A string left-padded with zeros to the given width.
ZeroPad(s, w) == IF Len(s) >= w THEN s ELSE ZeroPad(<<"0">> \o s, w)

IsDigit(c) == \E i \in 1..10 : DigitChars[i] = c

DigitVal(c) == (CHOOSE i \in 1..10 : DigitChars[i] = c) - 1

RECURSIVE DecVal(_)
\* int(s) of a string of digits
DecVal(s) ==
    IF Len(s) = 0 THEN 0
    ELSE 10 * DecVal(SubSeq(s, 1, Len(s) - 1)) + DigitVal(s[Len(s)])

\* The width strptime reads and strftime writes for a directive.
DirectiveWidth(tok) == IF tok = "%Y" THEN 4 ELSE 2

IsDirective(tok) == tok \in {"%Y", "%m", "%d", "%W"}

\* One directive of strftime; %W counts the weeks since the year's first Monday.
FormatDirective(dt, tok) ==
    IF tok = "%Y" THEN ZeroPad(DecStr(dt.year), 4)
    ELSE IF tok = "%m" THEN ZeroPad(DecStr(dt.month), 2)
    ELSE IF tok = "%d" THEN ZeroPad(DecStr(dt.day), 2)
    ELSE IF tok = "%W" THEN ZeroPad(DecStr((yday(dt) + 6 - weekday(dt)) \div 7), 2)
    ELSE <<tok>>

RECURSIVE strftime(_, _)
\* dt.strftime(fmt), fmt a sequence of directives and literal characters
strftime(dt, fmt) ==
    IF Len(fmt) = 0 THEN << >>
    ELSE FormatDirective(dt, Head(fmt)) \o strftime(dt, Tail(fmt))

RECURSIVE ParseInto(_, _, _)
\* The fields strptime reads from s under fmt, starting from the fields acc.
ParseInto(s, fmt, acc) ==
    IF Len(fmt) = 0
    THEN (IF Len(s) = 0 THEN Ok(acc) ELSE Raise("ValueError"))
    ELSE LET tok == Head(fmt) IN
         IF IsDirective(tok)
         THEN LET w == DirectiveWidth(tok) IN
              IF Len(s) < w \/ \E i \in 1..w : ~IsDigit(s[i])
              THEN Raise("ValueError")
              ELSE LET v    == DecVal(SubSeq(s, 1, w))
                       rest == SubSeq(s, w + 1, Len(s))
                   IN  IF tok = "%Y" THEN ParseInto(rest, Tail(fmt), [acc EXCEPT !.y = v])
                       ELSE IF tok = "%m" THEN ParseInto(rest, Tail(fmt), [acc EXCEPT !.m = v])
                       ELSE IF tok = "%d" THEN ParseInto(rest, Tail(fmt), [acc EXCEPT !.d = v])
                       ELSE ParseInto(rest, Tail(fmt), acc)
         ELSE IF Len(s) > 0 /\ s[1] = tok
              THEN ParseInto(SubSeq(s, 2, Len(s)), Tail(fmt), acc)
              ELSE Raise("ValueError")

\* datetime.strptime(s, fmt).date(): missing fields default to 1900-01-01.
strptime(s, fmt) ==
    LET r == ParseInto(s, fmt, [y |-> 1900, m |-> 1, d |-> 1]) IN
    IF ~r.ok THEN r
    ELSE IF ValidYmd(r.val.y, r.val.m, r.val.d)
         THEN Ok(date(r.val.y, r.val.m, r.val.d))
         ELSE Raise("ValueError")

\* ------------------------------------------------------------------------
\* The kinds: the five classes of the library, the Decade class of the tests,
\* and classes a caller defines (the Decade body under another kind_int).
\* A class is its name, its place in the order of definition, the class body
\* it has and its kind_int.
\* ------------------------------------------------------------------------
Year == [name |-> "Year", serial |-> 1, body |-> "Year", kind_int |-> 1]

Quarter == [name |-> "Quarter", serial |-> 2, body |-> "Quarter", kind_int |-> 3]

Month == [name |-> "Month", serial |-> 3, body |-> "Month", kind_int |-> 5]

Week == [name |-> "Week", serial |-> 4, body |-> "Week", kind_int |-> 7]

Day == [name |-> "Day", serial |-> 5, body |-> "Day", kind_int |-> 9]

Decade == [name |-> "Decade", serial |-> 6, body |-> "Decade", kind_int |-> 0]

\* The classes src/time_unit/__init__.py defines, in definition order.
LibraryKinds == <<Year, Quarter, Month, Week, Day>>

\* TIME_UNITS of the tests, coarsest first.
TIME_UNITS == <<Decade, Year, Quarter, Month, Week, Day>>

\* cls.formatter (Quarter leaves it None and never reads it)
formatter(kind) ==
    CASE kind.body = "Year"   -> <<"%Y">>
      [] kind.body = "Month"  -> <<"%Y", "M", "%m">>
      [] kind.body = "Week"   -> <<"%Y", "W", "%W">>
      [] kind.body = "Day"    -> <<"%Y", "-", "%m", "-", "%d">>
      [] kind.body = "Decade" -> <<"%Y", "s">>
      [] OTHER                -> << >>

\* Quarter.to_str
Quarter_to_str(dt) == DecStr(dt.year) \o <<"Q">> \o DecStr(dt.month \div 3)

\* cls.to_str(dt)
to_str(kind, dt) ==
    IF kind.body = "Quarter" THEN Quarter_to_str(dt)
    ELSE strftime(dt, formatter(kind))

\* Quarter.truncate counting the months from 0
Quarter_truncate_from_zero(dt) == date(dt.year, 3 * (dt.month \div 3) + 1, 1)

\* Quarter.truncate
Quarter_truncate(dt) == date(dt.year, 3 * ((dt.month - 1) \div 3) + 1, 1)

\* Week.truncate
Week_truncate(dt) == add_days(dt, 0 - weekday(dt))

\* Decade.truncate
Decade_truncate(dt) == date(10 * (dt.year \div 10), 1, 1)

\* TimeunitKindMeta.truncate: format the date and parse it back.
Meta_truncate(kind, dt) == strptime(to_str(kind, dt), formatter(kind)).val

\* cls.truncate(dt)
truncate(kind, dt) ==
    CASE kind.body = "Quarter" -> Quarter_truncate(dt)
      [] kind.body = "Week"    -> Week_truncate(dt)
      [] kind.body = "Decade"  -> Decade_truncate(dt)
      [] OTHER                 -> Meta_truncate(kind, dt)

\* date(y, m, d), raising ValueError for a day that does not exist
date_checked(y, m, d) ==
    IF ValidYmd(y, m, d) THEN Ok(date(y, m, d)) ELSE Raise("ValueError")

\* Year._next
Year_next(dt) == date_checked(dt.year + 1, 1, 1)

\* Quarter._next
Quarter_next(dt) ==
    LET q2 == ((3 * (dt.month + 2)) \div 3) + 1 IN
    IF q2 = 13 THEN date_checked(dt.year + 1, 1, 1)
    ELSE date_checked(dt.year, q2, 1)

\* Month._next
Month_next(dt) ==
    LET m2 == dt.month + 1 IN
    IF m2 > 12 THEN date_checked(dt.year + 1, 1, 1)
    ELSE date_checked(dt.year, m2, 1)

\* Week._next
Week_next(dt) == Ok(add_days(dt, 7))

\* Day._next
Day_next(dt) == Ok(add_days(dt, 1))

\* TimeunitKindMeta._next: reads cls._last_day, which no class defines.
Meta_next(kind, dt) == Raise("AttributeError")

\* cls._next(dt)
next_start(kind, dt) ==
    CASE kind.body = "Year"    -> Year_next(dt)
      [] kind.body = "Quarter" -> Quarter_next(dt)
      [] kind.body = "Month"   -> Month_next(dt)
      [] kind.body = "Week"    -> Week_next(dt)
      [] kind.body = "Day"     -> Day_next(dt)
      [] OTHER                 -> Meta_next(kind, dt)

\* Decade.last_day
Decade_last_day(dt) ==
    LET r == date_checked(Decade_truncate(dt).year + 10, 1, 1) IN
    IF r.ok THEN Ok(add_days(r.val, -1)) ELSE r

\* TimeunitKindMeta.last_day
Meta_last_day(kind, dt) ==
    LET r == next_start(kind, dt) IN
    IF r.ok THEN Ok(add_days(r.val, -1)) ELSE r

\* cls.last_day(dt)
last_day(kind, dt) ==
    IF kind.body = "Decade" THEN Decade_last_day(dt) ELSE Meta_last_day(kind, dt)

\* Timeunit.__init__ with a class as kind: a period is (kind, truncated date).
Timeunit(kind, dt) == [kind |-> kind, dt |-> truncate(kind, dt)]

\* get_previous without the step back of one day
get_previous_same_day(kind, dt) == Timeunit(kind, dt)

\* TimeunitKindMeta.get_previous
get_previous(kind, dt) == Timeunit(kind, add_days(dt, -1))

\* TimeunitKindMeta.get_next
get_next(kind, dt) ==
    LET r == next_start(kind, truncate(kind, dt)) IN
    IF r.ok THEN Ok(Timeunit(kind, r.val)) ELSE r

\* Timeunit.previous
previous(tu) == get_previous(tu.kind, tu.dt)

\* Timeunit.next
next(tu) == get_next(tu.kind, tu.dt)

\* Timeunit.first_date
first_date(tu) == tu.dt

\* Timeunit.last_date
last_date(tu) == last_day(tu.kind, tu.dt)

\* Timeunit.date_range
date_range(tu) ==
    LET r == last_date(tu) IN
    IF r.ok THEN Ok(<<tu.dt, r.val>>) ELSE r

\* Timeunit.__len__
Timeunit_len(tu) ==
    LET r == next(tu) IN
    IF r.ok THEN Ok(days_between(r.val.dt, tu.dt)) ELSE r

\* Timeunit.__eq__
Timeunit_eq(a, b) == a.kind = b.kind /\ a.dt = b.dt

\* Timeunit.__str__
Timeunit_str(tu) == to_str(tu.kind, tu.dt)

\* Timeunit._get_range; an item is a date, a Timeunit, a tuple of two dates,
\* or an int.
get_range(item) ==
    IF item.type = "date" THEN Ok(<<item.d, item.d>>)
    ELSE IF item.type = "Timeunit" THEN date_range(item.tu)
    ELSE Raise("TypeError")

\* overlaps_with under strict comparisons
overlaps_with_strict(tu, item) ==
    LET r0 == get_range(item)
        r  == date_range(tu)
    IN  IF ~r0.ok THEN r0
        ELSE IF ~r.ok THEN r
        ELSE Ok(date_lt(r0.val[1], r.val[2]) /\ date_lt(r.val[1], r0.val[2]))

\* Timeunit.overlaps_with
overlaps_with(tu, item) ==
    LET r0 == get_range(item)
        r  == date_range(tu)
    IN  IF ~r0.ok THEN r0
        ELSE IF ~r.ok THEN r
        ELSE Ok(date_le(r0.val[1], r.val[2]) /\ date_le(r.val[1], r0.val[2]))

\* Timeunit.__contains__
contains(tu, item) ==
    LET r0 == get_range(item)
        r  == date_range(tu)
    IN  IF ~r0.ok THEN r0
        ELSE IF ~r.ok THEN r
        ELSE Ok(date_le(r.val[1], r0.val[1]) /\ date_le(r0.val[2], r.val[2]))

\* date_to_int
date_to_int(val, mul) == mul * (val.year * 10000 + val.month * 100 + val.day)

\* date_from_int without the scaling down by div
date_from_int_unscaled(val, div) ==
    date_checked(val \div 10000, (val \div 100) % 100, val % 100)

\* date_from_int
date_from_int(val, div) ==
    LET v == val \div div IN
    date_checked(v \div 10000, (v \div 100) % 100, v % 100)

\* ------------------------------------------------------------------------
\* State
\* ------------------------------------------------------------------------
\* None is the empty sequence and a value v that is set is <<v>>.
None == << >>

VARIABLES
    pre_registered,      \* TimeunitKindMeta._pre_registered
    registered,          \* TimeunitKindMeta._registered: None or <<dict>>
    cached_multiplier,   \* TimeunitKindMeta._multiplier: None or <<int>>
    tu,                  \* the Timeunit the caller holds
    gen,                 \* the generator of iter(tu): None or <<frame>>
    yielded,             \* the dates the generator has yielded so far
    out                  \* the last operation and what it returned or raised

vars == <<pre_registered, registered, cached_multiplier, tu, gen, yielded, out>>

registry == <<pre_registered, registered, cached_multiplier>>

\* ------------------------------------------------------------------------
\* The registry
\* ------------------------------------------------------------------------
\* The kind codes of a list of classes.
Codes(pre) == {pre[i].kind_int : i \in 1..Len(pre)}

SetMax(S) == CHOOSE x \in S : \A y \in S : y <= x

RECURSIVE CeilLog10(_)
\* math.ceil(math.log10(n)) for an integer n >= 1
CeilLog10(n) == IF n <= 1 THEN 0 ELSE 1 + CeilLog10((n + 9) \div 10)

RECURSIVE Pow10(_)
Pow10(e) == IF e = 0 THEN 1 ELSE 10 * Pow10(e - 1)

\* The value the multiplier property computes from the classes pre.
compute_multiplier(pre) == Pow10(CeilLog10(SetMax({1} \cup Codes(pre))))

\* TimeunitKindMeta.multiplier: the cached value, or the computed one.
multiplier ==
    IF cached_multiplier # None THEN cached_multiplier[1]
    ELSE compute_multiplier(pre_registered)

\* The dict the unit_register property builds: the last class of a code wins.
compute_register(pre) ==
    [c \in Codes(pre) |->
        pre[SetMax({i \in 1..Len(pre) : pre[i].kind_int = c})]]

\* TimeunitKindMeta.unit_register: the cached dict, or the built one.
unit_register ==
    IF registered # None THEN registered[1]
    ELSE compute_register(pre_registered)

\* Timeunit.__int__
Timeunit_int(p) == date_to_int(p.dt, multiplier) + p.kind.kind_int

\* Timeunit.__lt__
Timeunit_lt(a, b) == Timeunit_int(a) < Timeunit_int(b)

\* Timeunit.__gt__
Timeunit_gt(a, b) == Timeunit_int(a) > Timeunit_int(b)

\* Timeunit.__le__
Timeunit_le(a, b) == Timeunit_int(a) <= Timeunit_int(b)

\* Timeunit.__ge__
Timeunit_ge(a, b) == Timeunit_int(a) >= Timeunit_int(b)

\* TimeunitKindMeta.from_int
from_int(val) ==
    LET mul  == multiplier
        code == val % mul
        d    == date_from_int(val, mul)
    IN  IF code \notin DOMAIN unit_register THEN Raise("KeyError")
        ELSE IF ~d.ok THEN d
        ELSE Ok(Timeunit(unit_register[code], d.val))

\* Timeunit.__init__ with an int as kind: it reads the _registered attribute.
Timeunit_by_code(code, dt) ==
    IF registered = None THEN Raise("TypeError")
    ELSE IF code \notin DOMAIN registered[1] THEN Raise("KeyError")
    ELSE Ok(Timeunit(registered[1][code], dt))

\* ------------------------------------------------------------------------
\* Inputs
\* ------------------------------------------------------------------------
WindowStart == date(WindowYear, 12, 25)

WindowEnd == add_days(WindowStart, NumDays - 1)

\* The dates handed to the constructors.
Window == {add_days(WindowStart, i) : i \in 0..(NumDays - 1)}

InWindow(dt) == date_le(WindowStart, dt) /\ date_le(dt, WindowEnd)

\* The classes that exist: the library's and those defined since.
Classes == {pre_registered[i] : i \in 1..Len(pre_registered)}

\* The kind codes a caller gives the classes it defines.
RegCodes == {-1, 1, 10, 11}

\* A class a caller defines as the n-th registered one, with kind_int c.
CallerKind(n, c) == [name |-> "Kind", serial |-> n, body |-> "Decade", kind_int |-> c]

DateItem(d) == [type |-> "date", d |-> d]

TupleItem(s, e) == [type |-> "tuple", frm |-> s, to |-> e]

TimeunitItem(p) == [type |-> "Timeunit", tu |-> p]

IntItem(n) == [type |-> "int", n |-> n]

\* The dates around the two ends of a period.
EdgeDates(p) ==
    LET l == last_date(p) IN
    {add_days(p.dt, -1), p.dt, add_days(p.dt, 1)}
    \cup (IF l.ok THEN {l.val, add_days(l.val, 1)} ELSE {})

\* The items tested against a period: dates and ranges around its ends, the
\* period itself, its neighbours, the periods of the other kinds at its start,
\* and an int.
Items(p) ==
    LET l == last_date(p)
        n == next(p)
    IN  {DateItem(d) : d \in EdgeDates(p)}
        \cup {TupleItem(d, d) : d \in EdgeDates(p)}
        \cup {TupleItem(s, e) : s \in {add_days(p.dt, -1), p.dt},
                                e \in (IF l.ok THEN {l.val, add_days(l.val, 1)} ELSE {})}
        \cup {TimeunitItem(p), TimeunitItem(previous(p))}
        \cup (IF n.ok THEN {TimeunitItem(n.val)} ELSE {})
        \cup {TimeunitItem(Timeunit(k, p.dt)) : k \in Classes}
        \cup {IntItem(1425)}

\* ------------------------------------------------------------------------
\* Initial state: the library is imported and the caller holds one period
\* ------------------------------------------------------------------------
Imported ==
    /\ pre_registered = LibraryKinds
    /\ registered = None
    /\ cached_multiplier = None
    /\ gen = None
    /\ yielded = << >>

Init ==
    /\ Imported
    /\ \E k \in Classes, d \in Window :
        /\ tu = Timeunit(k, d)
        /\ out = [op |-> "init", kind |-> k, arg |-> d]

\* No generator is running and the caller holds no result to look at.
Idle == gen = None /\ out.op = "none"

\* ------------------------------------------------------------------------
\* Operations
\* ------------------------------------------------------------------------
\* The caller is done with the result of the last operation.
Discard ==
    /\ gen = None
    /\ out.op # "none"
    /\ out' = [op |-> "none"]
    /\ UNCHANGED <<registry, tu, gen, yielded>>

\* What the caller sees of a class statement: the class, whether its code was
\* taken, the dict and the cached attributes as they were before it.
Registered(kind) ==
    [op |-> "register", kind |-> kind,
     taken |-> kind.kind_int \in Codes(pre_registered),
     before |-> compute_register(pre_registered), raised |-> FALSE,
     had_multiplier |-> cached_multiplier # None,
     had_registered |-> registered # None]

\* A class statement that appends the class and leaves the cached attributes.
Register_keeps_cache(kind) ==
    /\ Idle
    /\ pre_registered' = Append(pre_registered, kind)
    /\ out' = Registered(kind)
    /\ UNCHANGED <<registered, cached_multiplier, tu, gen, yielded>>

\* A class statement with a kind_int: TimeunitKindMeta.__init__ .
Register(kind) ==
    /\ Idle
    /\ pre_registered' = Append(pre_registered, kind)
    /\ registered' = None
    /\ cached_multiplier' = None
    /\ out' = Registered(kind)
    /\ UNCHANGED <<tu, gen, yielded>>

\* The tests define Decade, once.
DefineDecade ==
    /\ Decade \notin Classes
    /\ Register(Decade)

\* A caller defines a class of its own.
DefineKind ==
    /\ Len(pre_registered) < Len(LibraryKinds) + MaxReg
    /\ \E c \in RegCodes : Register(CallerKind(Len(pre_registered) + 1, c))

\* TimeunitKind.multiplier
ReadMultiplier ==
    /\ Idle
    /\ cached_multiplier' = <<multiplier>>
    /\ out' = [op |-> "multiplier", val |-> multiplier]
    /\ UNCHANGED <<pre_registered, registered, tu, gen, yielded>>

\* TimeunitKind.unit_register
ReadUnitRegister ==
    /\ Idle
    /\ registered' = <<unit_register>>
    /\ out' = [op |-> "unit_register", val |-> unit_register]
    /\ UNCHANGED <<pre_registered, cached_multiplier, tu, gen, yielded>>

\* kind(tu): TimeunitKindMeta.__call__ on the period held, as long as it
\* starts inside the window
Call ==
    /\ Idle
    /\ InWindow(tu.dt)
    /\ \E k \in Classes :
        /\ tu' = Timeunit(k, tu.dt)
        /\ out' = [op |-> "init", kind |-> k, arg |-> tu.dt]
    /\ UNCHANGED <<registry, gen, yielded>>

\* Timeunit(code, tu.dt), as long as the period held starts inside the window
CallByCode ==
    /\ Idle
    /\ InWindow(tu.dt)
    /\ \E c \in RegCodes \cup Codes(pre_registered) :
        LET r == Timeunit_by_code(c, tu.dt) IN
        /\ tu' = IF r.ok THEN r.val ELSE tu
        /\ out' = [op |-> "init_code", code |-> c, arg |-> tu.dt, res |-> r]
    /\ UNCHANGED <<registry, gen, yielded>>

\* tu.next, as long as the period held starts inside the window
Next_ ==
    /\ Idle
    /\ date_le(tu.dt, WindowEnd)
    /\ LET r == next(tu) IN
        /\ tu' = IF r.ok THEN r.val ELSE tu
        /\ out' = [op |-> "next", p |-> tu, res |-> r]
    /\ UNCHANGED <<registry, gen, yielded>>

\* tu.previous, as long as the period held starts inside the window
Previous ==
    /\ Idle
    /\ date_le(WindowStart, tu.dt)
    /\ tu' = previous(tu)
    /\ out' = [op |-> "previous", p |-> tu]
    /\ UNCHANGED <<registry, gen, yielded>>

\* int(tu)
Int_ ==
    /\ Idle
    /\ cached_multiplier' = <<multiplier>>
    /\ out' = [op |-> "int", p |-> tu, val |-> Timeunit_int(tu)]
    /\ UNCHANGED <<pre_registered, registered, tu, gen, yielded>>

\* TimeunitKind.from_int(int(tu))
FromInt ==
    /\ Idle
    /\ cached_multiplier' = <<multiplier>>
    /\ registered' = <<unit_register>>
    /\ out' = [op |-> "from_int", p |-> tu, val |-> Timeunit_int(tu),
               res |-> from_int(Timeunit_int(tu))]
    /\ UNCHANGED <<pre_registered, tu, gen, yielded>>

\* str(tu)
Str ==
    /\ Idle
    /\ out' = [op |-> "str", p |-> tu, val |-> Timeunit_str(tu)]
    /\ UNCHANGED <<registry, tu, gen, yielded>>

\* What p < q, p > q, p <= q, p >= q and p == q return.
Comparisons(p, q) ==
    [op |-> "compare", p |-> p, q |-> q,
     lt |-> Timeunit_lt(p, q), gt |-> Timeunit_gt(p, q),
     le |-> Timeunit_le(p, q), ge |-> Timeunit_ge(p, q),
     eq |-> Timeunit_eq(p, q)]

\* tu < q, tu > q, tu <= q, tu >= q, tu == q against a period q starting near tu
Compare ==
    /\ Idle
    /\ \E k \in Classes, d \in {add_days(tu.dt, -1), tu.dt, add_days(tu.dt, 1)} :
        out' = Comparisons(tu, Timeunit(k, d))
    /\ cached_multiplier' = <<multiplier>>
    /\ UNCHANGED <<pre_registered, registered, tu, gen, yielded>>

\* item in tu
Contains ==
    /\ Idle
    /\ \E item \in Items(tu) :
        out' = [op |-> "contains", p |-> tu, item |-> item, res |-> contains(tu, item)]
    /\ UNCHANGED <<registry, tu, gen, yielded>>

\* tu.overlaps_with(item)
OverlapsWith ==
    /\ Idle
    /\ \E item \in Items(tu) :
        out' = [op |-> "overlaps_with", p |-> tu, item |-> item,
                res |-> overlaps_with(tu, item)]
    /\ UNCHANGED <<registry, tu, gen, yielded>>

\* len(tu)
Len_ ==
    /\ Idle
    /\ out' = [op |-> "len", p |-> tu, res |-> Timeunit_len(tu)]
    /\ UNCHANGED <<registry, tu, gen, yielded>>

\* iter(tu): the generator is created and has run nothing yet.
Iter ==
    /\ Idle
    /\ gen' = <<[pc |-> "start", dt |-> tu.dt, end |-> tu.dt]>>
    /\ yielded' = << >>
    /\ out' = [op |-> "iter", p |-> tu]
    /\ UNCHANGED <<registry, tu>>

\* The generator yields dt, or returns when dt has reached end.
Resume(dt, end) ==
    IF date_lt(dt, end)
    THEN /\ gen' = <<[pc |-> "yield", dt |-> dt, end |-> end]>>
         /\ yielded' = Append(yielded, dt)
         /\ out' = out
    ELSE /\ gen' = None
         /\ yielded' = << >>
         /\ out' = [op |-> "list", p |-> tu, res |-> Ok(yielded)]

\* next() on the generator of Timeunit.__iter__
IterStep ==
    /\ gen # None
    /\ LET f == gen[1] IN
        IF f.pc = "start"
        THEN LET r == next(tu) IN
             IF r.ok THEN Resume(tu.dt, r.val.dt)
             ELSE /\ gen' = None
                  /\ yielded' = << >>
                  /\ out' = [op |-> "list", p |-> tu, res |-> r]
        ELSE Resume(add_days(f.dt, 1), f.end)
    /\ UNCHANGED <<registry, tu>>

\* The places of a coarser and a finer kind in TIME_UNITS.
KindPairs ==
    {ij \in (1..Len(TIME_UNITS)) \X (1..Len(TIME_UNITS)) :
        /\ ij[1] < ij[2]
        /\ TIME_UNITS[ij[1]] \in Classes
        /\ TIME_UNITS[ij[2]] \in Classes}

\* int(p.next)
int_of_next(sn) == IF sn.ok THEN Ok(Timeunit_int(sn.val)) ELSE sn

\* What the assertions of test_hierarchy read from the periods stu and tu of a
\* coarser and a finer kind.
HierarchyReads(d, stu, ftu) ==
    [op |-> "hierarchy", d |-> d, stu |-> stu, ftu |-> ftu,
     len_s |-> Timeunit_len(stu), len_f |-> Timeunit_len(ftu),
     eq |-> Timeunit_eq(stu, ftu),
     int_s |-> Timeunit_int(stu), int_f |-> Timeunit_int(ftu),
     int_s_previous |-> Timeunit_int(previous(stu)),
     int_s_next |-> int_of_next(next(stu)),
     s_overlaps_f |-> overlaps_with(stu, TimeunitItem(ftu)),
     f_overlaps_s |-> overlaps_with(ftu, TimeunitItem(stu))]

\* test_hierarchy on the date tu starts on
Hierarchy ==
    /\ Idle
    /\ \E ij \in KindPairs :
        out' = HierarchyReads(tu.dt, Timeunit(TIME_UNITS[ij[1]], tu.dt),
                              Timeunit(TIME_UNITS[ij[2]], tu.dt))
    /\ cached_multiplier' = <<multiplier>>
    /\ UNCHANGED <<pre_registered, registered, tu, gen, yielded>>

\* ------------------------------------------------------------------------
\* Specifications
\* ------------------------------------------------------------------------
\* The library with the kinds of the repository: its own five and Decade.
Next ==
    \/ Discard
    \/ DefineDecade
    \/ ReadMultiplier
    \/ ReadUnitRegister
    \/ Call
    \/ Next_
    \/ Previous
    \/ Int_
    \/ FromInt
    \/ Str
    \/ Compare
    \/ Contains
    \/ OverlapsWith
    \/ Len_
    \/ Iter
    \/ IterStep
    \/ Hierarchy

Spec == Init /\ [][Next]_vars

\* The registry under the classes a caller defines.
RegDates == {WindowStart, WindowEnd}

InitReg ==
    /\ Imported
    /\ \E k \in Classes, d \in RegDates :
        /\ tu = Timeunit(k, d)
        /\ out = [op |-> "init", kind |-> k, arg |-> d]

NextReg ==
    \/ Discard
    \/ DefineKind
    \/ ReadMultiplier
    \/ ReadUnitRegister
    \/ Call
    \/ CallByCode
    \/ Int_
    \/ FromInt

SpecReg == InitReg /\ [][NextReg]_vars

\* ------------------------------------------------------------------------
\* Properties
\* ------------------------------------------------------------------------
\* The five kinds of the library.
BuiltIn == {LibraryKinds[i] : i \in 1..Len(LibraryKinds)}

\* C1: decoding the integer of a period of a built-in kind gives that period
\* back: from_int(int(K(d))) has the kind K and the start date of K(d).
C1_IntRoundTrip ==
    (out.op = "from_int" /\ out.p.kind \in BuiltIn)
        => /\ out.res.ok
           /\ out.res.val.kind = out.p.kind
           /\ out.res.val.dt = out.p.dt

\* A quarter has been encoded and decoded back to itself.
C1_Witness ==
    /\ out.op = "from_int"
    /\ out.p.kind = Quarter
    /\ out.res.ok
    /\ out.res.val = out.p

\* C2: the periods of a built-in kind tile the timeline: p.next.previous and
\* p.previous.next are p, and the day after a period's last date is the first
\* date of the next period.
C2_Adjacency ==
    /\ (out.op = "next" /\ out.p.kind \in BuiltIn)
        => /\ out.res.ok
           /\ tu = out.res.val
           /\ Timeunit_eq(previous(tu), out.p)
           /\ last_date(out.p).ok
           /\ add_days(last_date(out.p).val, 1) = first_date(tu)
    /\ (out.op = "previous" /\ out.p.kind \in BuiltIn)
        => /\ next(tu).ok
           /\ Timeunit_eq(next(tu).val, out.p)
           /\ last_date(tu).ok
           /\ add_days(last_date(tu).val, 1) = first_date(out.p)

\* The caller has stepped from the last week of a year to the first of the next.
C2_Witness ==
    /\ out.op = "next"
    /\ out.p.kind = Week
    /\ out.res.ok
    /\ out.p.dt.year < tu.dt.year
    /\ previous(tu) = out.p

\* C3: the start date of a period is a fixed point of its kind's truncate, and
\* the date handed to the constructor lies between the first and the last date.
C3_Truncated ==
    /\ truncate(tu.kind, tu.dt) = tu.dt
    /\ out.op = "init"
        => /\ tu.kind = out.kind
           /\ last_date(tu).ok
           /\ date_le(first_date(tu), out.arg)
           /\ date_le(out.arg, last_date(tu).val)

\* A month was built from a date that is neither its first nor its last one.
C3_Witness ==
    /\ out.op = "init"
    /\ tu.kind = Month
    /\ date_lt(tu.dt, out.arg)
    /\ date_lt(out.arg, last_date(tu).val)

\* The smallest power of ten that is at least 10 and above every code of S.
PowerOfTenAbove(S) ==
    CHOOSE p \in {Pow10(e) : e \in 1..6} :
        /\ \A c \in S : c < p
        /\ \A q \in {Pow10(e) : e \in 1..6} : (\A c \in S : c < q) => p <= q

\* C4: multiplier() is the smallest power of ten that is at least 10 and
\* strictly greater than the largest registered code, and the integer of a
\* period modulo the multiplier is the code of its kind.
C4_MultiplierAboveCodes ==
    /\ out.op = "multiplier" => out.val = PowerOfTenAbove(Codes(pre_registered))
    /\ out.op = "int" => out.val % multiplier = out.p.kind.kind_int

\* C5: registering a class whose code is negative or already taken fails and
\* leaves the mapping from code to kind as it was.
C5_RejectsBadCode ==
    (out.op = "register" /\ (out.kind.kind_int < 0 \/ out.taken))
        => /\ out.raised
           /\ compute_register(pre_registered) = out.before

\* C6: a range of two dates (s, e) is in p iff p's first date <= s and
\* e <= p's last date, and p overlaps it iff p's last date >= s and
\* e >= p's first date; neither test raises.
C6_TupleRange ==
    /\ (out.op = "contains" /\ out.item.type = "tuple")
        => /\ out.res.ok
           /\ out.res.val = (/\ date_le(first_date(out.p), out.item.frm)
                             /\ date_le(out.item.to, last_date(out.p).val))
    /\ (out.op = "overlaps_with" /\ out.item.type = "tuple")
        => /\ out.res.ok
           /\ out.res.val = (/\ date_le(out.item.frm, last_date(out.p).val)
                             /\ date_le(first_date(out.p), out.item.to))

\* C7: the string of a quarter is the year, "Q" and the number 1..4 of the
\* quarter: 1, 2, 3, 4 for a quarter starting in month 1, 4, 7, 10.
C7_QuarterString ==
    (out.op = "str" /\ out.p.kind = Quarter)
        => out.val = DecStr(out.p.dt.year) \o <<"Q">>
                        \o DecStr(((out.p.dt.month - 1) \div 3) + 1)

\* (date, kind code) of p before (date, kind code) of q
LexLess(p, q) ==
    \/ date_lt(p.dt, q.dt)
    \/ p.dt = q.dt /\ p.kind.kind_int < q.kind.kind_int

\* C8: p < q iff (start date, kind code) of p is lexicographically before that
\* of q, and p.previous < p < p.next and int(p.previous) < int(p) < int(p.next)
\* for every period p.
C8_Ordering ==
    /\ out.op = "compare"
        => /\ out.lt = LexLess(out.p, out.q)
           /\ out.gt = LexLess(out.q, out.p)
    /\ out.op = "next"
        => /\ out.res.ok
           /\ Timeunit_lt(out.p, out.res.val)
           /\ Timeunit_int(out.p) < Timeunit_int(out.res.val)
    /\ out.op = "previous"
        => /\ Timeunit_lt(tu, out.p)
           /\ Timeunit_int(tu) < Timeunit_int(out.p)

\* C9: list(p) has len(p) dates, from p's first date to its last, each the day
\* after the one before, and the first date of p.next is not among them.
C9_Iteration ==
    out.op = "list"
        => /\ out.res.ok
           /\ Timeunit_len(out.p).ok
           /\ Len(out.res.val) = Timeunit_len(out.p).val
           /\ Len(out.res.val) > 0
           /\ out.res.val[1] = first_date(out.p)
           /\ out.res.val[Len(out.res.val)] = last_date(out.p).val
           /\ \A i \in 1..(Len(out.res.val) - 1) :
                out.res.val[i + 1] = add_days(out.res.val[i], 1)
           /\ \A i \in 1..Len(out.res.val) : out.res.val[i] # next(out.p).val.dt

\* C10: for built-in kinds S coarser than F and a date d, S(d) and F(d) overlap
\* each other, F(d) is shorter than S(d), they differ as periods and as
\* integers, and int(S(d).previous) < int(F(d)) < int(S(d).next).
C10_Hierarchy ==
    (out.op = "hierarchy" /\ out.stu.kind \in BuiltIn /\ out.ftu.kind \in BuiltIn)
        => /\ out.s_overlaps_f = Ok(TRUE)
           /\ out.f_overlaps_s = Ok(TRUE)
           /\ out.len_s.ok
           /\ out.len_f.ok
           /\ out.len_f.val < out.len_s.val
           /\ ~out.eq
           /\ out.int_s # out.int_f
           /\ out.int_s_previous < out.int_f
           /\ out.int_s_next.ok
           /\ out.int_f < out.int_s_next.val

\* A month and the week of its first day, which starts in the month before.
C10_Witness ==
    /\ out.op = "hierarchy"
    /\ out.stu.kind = Month
    /\ out.ftu.kind = Week
    /\ date_lt(out.ftu.dt, out.stu.dt)
    /\ out.s_overlaps_f = Ok(TRUE)
    /\ out.len_f.val < out.len_s.val

\* C11: Timeunit(code, d) with the code of a registered kind succeeds in every
\* state of the registry, read or not, and is K(d) for the kind K registered
\* under that code.
C11_ByCodeAlways ==
    (out.op = "init_code" /\ out.code \in Codes(pre_registered))
        => /\ out.res.ok
           /\ out.res.val =
                Timeunit(compute_register(pre_registered)[out.code], out.arg)

\* C12: Decade(d).next is the decade that starts on 1 January of the year ten
\* after the start of Decade(d).
C12_DecadeNext ==
    (out.op = "next" /\ out.p.kind = Decade)
        => /\ out.res.ok
           /\ out.res.val = Timeunit(Decade, date(out.p.dt.year + 10, 1, 1))

\* C13: no cached value is stale: a cached multiplier or dict is the one
\* computed from all the classes registered so far, a read returns that
\* value, and a class statement leaves both attributes unset.
C13_NoStaleCache ==
    /\ cached_multiplier # None
        => cached_multiplier[1] = compute_multiplier(pre_registered)
    /\ registered # None
        => registered[1] = compute_register(pre_registered)
    /\ out.op = "multiplier" => out.val = compute_multiplier(pre_registered)
    /\ out.op = "unit_register" => out.val = compute_register(pre_registered)
    /\ out.op = "register" => (cached_multiplier = None /\ registered = None)

\* A class with a new largest code was defined after both values had been
\* read and cached, and both attributes are unset again.
C13_Witness ==
    /\ out.op = "register"
    /\ out.had_multiplier
    /\ out.had_registered
    /\ out.kind.kind_int = 11
    /\ compute_multiplier(pre_registered) = 100
    /\ cached_multiplier = None
    /\ registered = None

====
